---- MODULE Spec2Model ----
(***************************************************************************)
(* A model of gcode_post_processor.py: the G-code extractor (parse_gcode), *)
(* the region transform (adjust_extrusion), the selection session          *)
(* (on_select / confirm_selection driven by the plot's events) and the     *)
(* stream rewriter (write_gcode).                                          *)
(*                                                                         *)
(* Text is modelled character by character: a line is a sequence of        *)
(* one-character strings, a file is a sequence of lines as Python's        *)
(* "for line in file" yields them (each with its trailing newline, except  *)
(* possibly the last).  The decoding and newline translation that         *)
(* text-mode open() performs between the bytes on disk and these lines    *)
(* are not modelled.                                                       *)
(*                                                                         *)
(* A Python float is modelled as a record                                  *)
(*     [k |-> "fin", neg |-> sign bit, m |-> magnitude, s |-> scale]       *)
(* standing for (-1)^neg * m / 10^s (kept normalised: no trailing zero in  *)
(* m while s > 0), or k = "inf" (signed) or k = "nan".  The texts used in  *)
(* the model denote dyadic rationals of small magnitude, for which binary  *)
(* float64 arithmetic is exact, so the decimal model computes what the     *)
(* program computes.                                                       *)
(***************************************************************************)
EXTENDS Integers, Sequences, FiniteSets, TLC

(***************************************************************************)
(* Characters and strings                                                  *)
(***************************************************************************)

DigitChars == <<"0", "1", "2", "3", "4", "5", "6", "7", "8", "9">>

IsDigit(c) == \E d \in 1..Len(DigitChars) : DigitChars[d] = c

DigitVal(c) == (CHOOSE d \in 1..Len(DigitChars) : DigitChars[d] = c) - 1

\* str.split() and str.strip() with no argument treat these as whitespace.
Whitespace == {" ", "\t", "\n", "\r"}

\* s[i:] of Python with a 1-based i (the suffix starting at position i).
Suffix(s, i) == SubSeq(s, i, Len(s))

\* s.startswith(c) for a one-character prefix c.
StartsWith(s, c) == Len(s) >= 1 /\ s[1] = c

\* s.strip(): leading and trailing whitespace removed.
RECURSIVE LStrip(_)
LStrip(s) ==
    IF s # <<>> /\ s[1] \in Whitespace THEN LStrip(Tail(s)) ELSE s

RECURSIVE RStrip(_)
RStrip(s) ==
    IF s # <<>> /\ s[Len(s)] \in Whitespace
    THEN RStrip(SubSeq(s, 1, Len(s) - 1))
    ELSE s

Strip(s) == RStrip(LStrip(s))

\* s.split(): the maximal runs of non-whitespace characters, in order.
\* cur is the token being read, acc the tokens completed so far.
RECURSIVE SplitFrom(_, _, _)
SplitFrom(s, cur, acc) ==
    IF s = <<>>
    THEN IF cur = <<>> THEN acc ELSE Append(acc, cur)
    ELSE IF s[1] \in Whitespace
         THEN SplitFrom(Tail(s), <<>>, IF cur = <<>> THEN acc ELSE Append(acc, cur))
         ELSE SplitFrom(Tail(s), Append(cur, s[1]), acc)

Split(s) == SplitFrom(s, <<>>, <<>>)

\* ' '.join(parts)
RECURSIVE Join(_)
Join(parts) ==
    IF parts = <<>> THEN <<>>
    ELSE IF Len(parts) = 1 THEN parts[1]
    ELSE parts[1] \o <<" ">> \o Join(Tail(parts))

\* 'G1' in line: the two-character tag as a substring.
HasTag(line) ==
    \E i \in 1..(Len(line) - 1) : line[i] = "G" /\ line[i + 1] = "1"

(***************************************************************************)
(* Floats                                                                  *)
(***************************************************************************)

RECURSIVE Pow10(_)
Pow10(n) == IF n = 0 THEN 1 ELSE 10 * Pow10(n - 1)

RECURSIVE Fin(_, _, _)
Fin(neg, m, s) ==
    IF s > 0 /\ m % 10 = 0
    THEN Fin(neg, m \div 10, s - 1)
    ELSE [k |-> "fin", neg |-> neg, m |-> m, s |-> s]

Inf(neg) == [k |-> "inf", neg |-> neg, m |-> 0, s |-> 0]

NaN == [k |-> "nan", neg |-> FALSE, m |-> 0, s |-> 0]

\* The outcome of float(text) when it raises ValueError.
ValueError == [k |-> "ValueError", neg |-> FALSE, m |-> 0, s |-> 0]

\* The value None of parse_gcode's x, y, e.
None == [k |-> "None", neg |-> FALSE, m |-> 0, s |-> 0]

IsZero(a) == a.k = "fin" /\ a.m = 0

IsFinite(a) == a.k = "fin"

\* a * b for floats.
FMul(a, b) ==
    IF a.k = "nan" \/ b.k = "nan" THEN NaN
    ELSE IF a.k = "inf" \/ b.k = "inf"
         THEN IF IsZero(a) \/ IsZero(b) THEN NaN ELSE Inf(a.neg # b.neg)
         ELSE Fin(a.neg # b.neg, a.m * b.m, a.s + b.s)

\* a < b for floats (any comparison with nan is False; -0.0 equals 0.0).
FLt(a, b) ==
    IF a.k = "nan" \/ b.k = "nan" THEN FALSE
    ELSE IF a.k = "inf" THEN a.neg /\ ~(b.k = "inf" /\ b.neg)
    ELSE IF b.k = "inf" THEN ~b.neg
    ELSE LET sc == IF a.s > b.s THEN a.s ELSE b.s
             va == (IF a.neg THEN -1 ELSE 1) * a.m * Pow10(sc - a.s)
             vb == (IF b.neg THEN -1 ELSE 1) * b.m * Pow10(sc - b.s)
         IN  va < vb

\* a <= b and a >= b for floats.
FLe(a, b) == a.k # "nan" /\ b.k # "nan" /\ ~FLt(b, a)

FGe(a, b) == FLe(b, a)

\* min(a, b) and max(a, b) of Python: the first argument unless the second
\* is strictly smaller (larger).
FMin(a, b) == IF FLt(b, a) THEN b ELSE a

FMax(a, b) == IF FLt(a, b) THEN b ELSE a

(***************************************************************************)
(* float(text) and f'{value:.5f}'                                          *)
(***************************************************************************)

\* str.lower() on the letters that spell float's special values.
Lower(c) ==
    CASE c = "I" -> "i" [] c = "N" -> "n" [] c = "F" -> "f" [] c = "A" -> "a"
      [] c = "T" -> "t" [] c = "Y" -> "y" [] OTHER -> c

LowerAll(s) == [i \in 1..Len(s) |-> Lower(s[i])]

\* The digits of s read as a natural number (0 for the empty string).
RECURSIVE DigitsVal(_)
DigitsVal(s) ==
    IF s = <<>> THEN 0
    ELSE 10 * DigitsVal(SubSeq(s, 1, Len(s) - 1)) + DigitVal(s[Len(s)])

\* An unsigned decimal literal: digits with at most one point and at least
\* one digit ("1", "1.", ".5", "1.50").
IsDecimal(s) ==
    /\ \A i \in 1..Len(s) : IsDigit(s[i]) \/ s[i] = "."
    /\ Cardinality({i \in 1..Len(s) : s[i] = "."}) <= 1
    /\ \E i \in 1..Len(s) : IsDigit(s[i])

DecimalVal(neg, s) ==
    LET dots == {i \in 1..Len(s) : s[i] = "."}
        dot  == IF dots = {} THEN Len(s) + 1 ELSE CHOOSE i \in dots : TRUE
        ip   == SubSeq(s, 1, dot - 1)
        fp   == SubSeq(s, dot + 1, Len(s))
    IN  Fin(neg, DigitsVal(ip \o fp), Len(fp))

\* float(text): surrounding whitespace is ignored, an optional sign, then
\* inf / infinity / nan in any letter case or a decimal literal; anything
\* else raises ValueError.  (Exponents and digit-group underscores, which
\* float also accepts, do not occur in the texts of this model.)
PyFloat(text) ==
    LET t    == Strip(text)
        sgn  == t # <<>> /\ t[1] \in {"-", "+"}
        neg  == t # <<>> /\ t[1] = "-"
        body == LowerAll(IF sgn THEN Tail(t) ELSE t)
    IN  IF body = <<"i", "n", "f">>
           \/ body = <<"i", "n", "f", "i", "n", "i", "t", "y">> THEN Inf(neg)
        ELSE IF body = <<"n", "a", "n">> THEN NaN
        ELSE IF IsDecimal(body) THEN DecimalVal(neg, body)
        ELSE ValueError

\* The number of digits after the point in write_gcode's format spec.
Precision == 5

\* n in decimal, at least one digit.
RECURSIVE NatChars(_)
NatChars(n) ==
    IF n < 10 THEN <<DigitChars[n + 1]>>
    ELSE Append(NatChars(n \div 10), DigitChars[(n % 10) + 1])

\* n in decimal, left-padded with zeros to `width` digits.
RECURSIVE PadChars(_, _)
PadChars(n, width) ==
    IF width = 0 THEN <<>>
    ELSE Append(PadChars(n \div 10, width - 1), DigitChars[(n % 10) + 1])

\* m / 10^s rounded to an integer number of 10^-Precision units, ties to
\* even (the format rounds the exact value of the float).
RoundScaled(m, s) ==
    IF s <= Precision THEN m * Pow10(Precision - s)
    ELSE LET d  == Pow10(s - Precision)
             q  == m \div d
             r  == m % d
         IN  IF 2 * r > d \/ (2 * r = d /\ q % 2 = 1) THEN q + 1 ELSE q

\* f'{v:.5f}'
FormatFixed(v) ==
    IF v.k = "nan" THEN <<"n", "a", "n">>
    ELSE IF v.k = "inf"
         THEN (IF v.neg THEN <<"-">> ELSE <<>>) \o <<"i", "n", "f">>
         ELSE LET q == RoundScaled(v.m, v.s)
              IN  (IF v.neg THEN <<"-">> ELSE <<>>)
                  \o NatChars(q \div Pow10(Precision))
                  \o <<".">>
                  \o PadChars(q % Pow10(Precision), Precision)

(***************************************************************************)
(* parse_gcode                                                             *)
(***************************************************************************)

\* The loop over the parts of one G1 line: st = [x, y, e, raised].  A part
\* whose remainder float() rejects raises ValueError out of parse_gcode.
RECURSIVE ScanParts(_, _)
ScanParts(parts, st) ==
    IF parts = <<>> THEN st
    ELSE LET part == parts[1]
             v    == PyFloat(Suffix(part, 2))
         IN  IF StartsWith(part, "X")
             THEN IF v = ValueError THEN [st EXCEPT !.raised = TRUE]
                  ELSE ScanParts(Tail(parts), [st EXCEPT !.x = v])
             ELSE IF StartsWith(part, "Y")
             THEN IF v = ValueError THEN [st EXCEPT !.raised = TRUE]
                  ELSE ScanParts(Tail(parts), [st EXCEPT !.y = v])
             ELSE IF StartsWith(part, "E")
             THEN IF v = ValueError THEN [st EXCEPT !.raised = TRUE]
                  ELSE ScanParts(Tail(parts), [st EXCEPT !.e = v])
             ELSE ScanParts(Tail(parts), st)

\* A variant of line 26 that does not ask for the E value.
HasAll_but_e(st) == st.x # None /\ st.y # None

\* Line 26: the three values a record needs have all been found.
HasAll(st) == st.x # None /\ st.y # None /\ st.e # None

\* A variant that skips a line float() raised on and carries on.
RECURSIVE ParseLines_skip_malformed(_, _)
ParseLines_skip_malformed(lines, acc) ==
    IF lines = <<>> THEN [raised |-> FALSE, data |-> acc]
    ELSE IF HasTag(lines[1])
         THEN LET st == ScanParts(Split(Strip(lines[1])),
                                  [x |-> None, y |-> None, e |-> None, raised |-> FALSE])
              IN  IF ~st.raised /\ HasAll(st)
                  THEN ParseLines_skip_malformed(Tail(lines),
                           Append(acc, [x |-> st.x, y |-> st.y, e |-> st.e]))
                  ELSE ParseLines_skip_malformed(Tail(lines), acc)
         ELSE ParseLines_skip_malformed(Tail(lines), acc)

\* The loop over the lines: acc is the list gcode_data built so far.
RECURSIVE ParseLines(_, _)
ParseLines(lines, acc) ==
    IF lines = <<>> THEN [raised |-> FALSE, data |-> acc]
    ELSE IF HasTag(lines[1])
         THEN LET st == ScanParts(Split(Strip(lines[1])),
                                  [x |-> None, y |-> None, e |-> None, raised |-> FALSE])
              IN  IF st.raised THEN [raised |-> TRUE, data |-> <<>>]
                  ELSE IF HasAll(st)
                       THEN ParseLines(Tail(lines),
                                       Append(acc, [x |-> st.x, y |-> st.y, e |-> st.e]))
                       ELSE ParseLines(Tail(lines), acc)
         ELSE ParseLines(Tail(lines), acc)

\* parse_gcode(file_path) on the lines of the file: [raised, data].
parse_gcode(lines) == ParseLines(lines, <<>>)

(***************************************************************************)
(* write_gcode                                                             *)
(***************************************************************************)

\* The loop over the parts of one G1 line: r = [new_line, gcode_index, read],
\* gcode_index counting the records consumed so far.  read is a history of
\* the loop: one entry for every evaluation of gcode_data[gcode_index, 2] at
\* line 49, with the position of the part it replaced and the (0-based) index.
RECURSIVE RewriteParts_always_advance(_, _, _)
RewriteParts_always_advance(parts, data, r) ==
    IF parts = <<>> THEN r
    ELSE LET part == parts[1]
         IN  IF StartsWith(part, "E")
             THEN IF r.gcode_index < Len(data)
                  THEN RewriteParts_always_advance(Tail(parts), data,
                           [new_line |-> Append(r.new_line,
                                <<"E">> \o FormatFixed(data[r.gcode_index + 1].e)),
                            gcode_index |-> r.gcode_index + 1,
                            read |-> Append(r.read, [part |-> Len(r.new_line) + 1,
                                                     index |-> r.gcode_index])])
                  ELSE RewriteParts_always_advance(Tail(parts), data,
                           [r EXCEPT !.new_line = Append(r.new_line, part),
                                     !.gcode_index = r.gcode_index + 1])
             ELSE RewriteParts_always_advance(Tail(parts), data,
                      [r EXCEPT !.new_line = Append(r.new_line, part)])

\* A variant that advances the cursor before it reads (one record late).
RECURSIVE RewriteParts_advance_first(_, _, _)
RewriteParts_advance_first(parts, data, r) ==
    IF parts = <<>> THEN r
    ELSE LET part == parts[1]
         IN  IF StartsWith(part, "E")
             THEN IF r.gcode_index + 1 < Len(data)
                  THEN RewriteParts_advance_first(Tail(parts), data,
                           [new_line |-> Append(r.new_line,
                                <<"E">> \o FormatFixed(data[r.gcode_index + 2].e)),
                            gcode_index |-> r.gcode_index + 1,
                            read |-> Append(r.read, [part |-> Len(r.new_line) + 1,
                                                     index |-> r.gcode_index + 1])])
                  ELSE RewriteParts_advance_first(Tail(parts), data,
                           [r EXCEPT !.new_line = Append(r.new_line, part)])
             ELSE RewriteParts_advance_first(Tail(parts), data,
                      [r EXCEPT !.new_line = Append(r.new_line, part)])

RECURSIVE RewriteParts(_, _, _)
RewriteParts(parts, data, r) ==
    IF parts = <<>> THEN r
    ELSE LET part == parts[1]
         IN  IF StartsWith(part, "E")
             THEN IF r.gcode_index < Len(data)
                  THEN RewriteParts(Tail(parts), data,
                           [new_line |-> Append(r.new_line,
                                <<"E">> \o FormatFixed(data[r.gcode_index + 1].e)),
                            gcode_index |-> r.gcode_index + 1,
                            read |-> Append(r.read, [part |-> Len(r.new_line) + 1,
                                                     index |-> r.gcode_index])])
                  ELSE RewriteParts(Tail(parts), data,
                           [r EXCEPT !.new_line = Append(r.new_line, part)])
             ELSE RewriteParts(Tail(parts), data,
                      [r EXCEPT !.new_line = Append(r.new_line, part)])

\* What the loop over the lines has done so far: out is what has been written
\* to the output file; read and index are histories with one entry per line,
\* the reads of gcode_data made on that line and gcode_index after it.
NothingWritten == [out |-> <<>>, read |-> <<>>, index |-> <<>>]

Written(w, text, read, gcode_index) ==
    [out |-> Append(w.out, text), read |-> Append(w.read, read),
     index |-> Append(w.index, gcode_index)]

\* A variant that re-joins the parts of every line, tagged or not.
RECURSIVE WriteLines_rejoin_all(_, _, _, _)
WriteLines_rejoin_all(lines, data, gcode_index, w) ==
    IF lines = <<>> THEN w
    ELSE IF HasTag(lines[1])
         THEN LET r == RewriteParts(Split(Strip(lines[1])), data,
                           [new_line |-> <<>>, gcode_index |-> gcode_index,
                            read |-> <<>>])
              IN  WriteLines_rejoin_all(Tail(lines), data, r.gcode_index,
                      Written(w, Join(r.new_line) \o <<"\n">>, r.read, r.gcode_index))
         ELSE WriteLines_rejoin_all(Tail(lines), data, gcode_index,
                  Written(w, Join(Split(Strip(lines[1]))) \o <<"\n">>, <<>>,
                          gcode_index))

\* A variant that takes records only on the lines parse_gcode makes records
\* from: tagged lines with X, Y and E parts.
RECURSIVE WriteLines_records_only(_, _, _, _)
WriteLines_records_only(lines, data, gcode_index, w) ==
    IF lines = <<>> THEN w
    ELSE LET parts == Split(Strip(lines[1]))
             has(c) == \E j \in 1..Len(parts) : StartsWith(parts[j], c)
         IN  IF HasTag(lines[1])
             THEN LET r == RewriteParts(parts, IF has("X") /\ has("Y") THEN data ELSE <<>>,
                               [new_line |-> <<>>,
                                gcode_index |-> IF has("X") /\ has("Y")
                                                THEN gcode_index ELSE 0,
                                read |-> <<>>])
                      next == IF has("X") /\ has("Y") THEN r.gcode_index
                              ELSE gcode_index
                  IN  WriteLines_records_only(Tail(lines), data, next,
                          Written(w, Join(r.new_line) \o <<"\n">>, r.read, next))
             ELSE WriteLines_records_only(Tail(lines), data, gcode_index,
                                          Written(w, lines[1], <<>>, gcode_index))

\* The loop over the lines of the original file.
RECURSIVE WriteLines(_, _, _, _)
WriteLines(lines, data, gcode_index, w) ==
    IF lines = <<>> THEN w
    ELSE IF HasTag(lines[1])
         THEN LET r == RewriteParts(Split(Strip(lines[1])), data,
                           [new_line |-> <<>>, gcode_index |-> gcode_index,
                            read |-> <<>>])
              IN  WriteLines(Tail(lines), data, r.gcode_index,
                      Written(w, Join(r.new_line) \o <<"\n">>, r.read, r.gcode_index))
         ELSE WriteLines(Tail(lines), data, gcode_index,
                         Written(w, lines[1], <<>>, gcode_index))

\* write_gcode(file_path, gcode_data, original_file_path): the lines written
\* (out), with the history of the record cursor.
write_gcode(data, lines) == WriteLines(lines, data, 0, NothingWritten)

(***************************************************************************)
(* adjust_extrusion                                                        *)
(***************************************************************************)

\* A variant of the mask that excludes the upper bounds (< for <=).
InMask_exclusive(row, x_range, y_range) ==
    /\ FGe(row.x, x_range[1]) /\ FLt(row.x, x_range[2])
    /\ FGe(row.y, y_range[1]) /\ FLt(row.y, y_range[2])

\* The mask of line 78, for one row of the array.
InMask(row, x_range, y_range) ==
    /\ FGe(row.x, x_range[1]) /\ FLe(row.x, x_range[2])
    /\ FGe(row.y, y_range[1]) /\ FLe(row.y, y_range[2])

\* A variant that assigns where the code multiplies (= for *=).
adjust_extrusion_assign(gcode, x_range, y_range, target_ratio) ==
    [i \in 1..Len(gcode) |->
        IF InMask(gcode[i], x_range, y_range)
        THEN [gcode[i] EXCEPT !.e = target_ratio]
        ELSE gcode[i]]

\* A variant that scales the whole row (gcode[mask] for gcode[mask, 2]).
adjust_extrusion_whole_row(gcode, x_range, y_range, target_ratio) ==
    [i \in 1..Len(gcode) |->
        IF InMask(gcode[i], x_range, y_range)
        THEN [x |-> FMul(gcode[i].x, target_ratio),
              y |-> FMul(gcode[i].y, target_ratio),
              e |-> FMul(gcode[i].e, target_ratio)]
        ELSE gcode[i]]

\* gcode[mask, 2] *= target_ratio
adjust_extrusion(gcode, x_range, y_range, target_ratio) ==
    [i \in 1..Len(gcode) |->
        IF InMask(gcode[i], x_range, y_range)
        THEN [gcode[i] EXCEPT !.e = FMul(gcode[i].e, target_ratio)]
        ELSE gcode[i]]

(***************************************************************************)
(* Inputs: the lines of input.gcode, the mouse events, the typed ratios    *)
(***************************************************************************)

\* 'G1 X0 Y0 E1.0\n' (a full extrusion move)
LineA ==
    <<"G", "1", " ", "X", "0", " ", "Y", "0", " ", "E", "1", ".", "0", "\n">>

\* 'G1 X10 Y10 E2.0\n' (a full extrusion move)
LineB ==
    <<"G", "1", " ", "X", "1", "0", " ", "Y", "1", "0", " ", "E", "2", ".", "0", "\n">>

\* 'G0  X5 E9\n' (no G1 tag: copied as it is, its E token included)
LineNoTag ==
    <<"G", "0", " ", " ", "X", "5", " ", "E", "9", "\n">>

\* 'G1 X5 E3\n' (tagged, with an E token but no Y token)
LineNoY ==
    <<"G", "1", " ", "X", "5", " ", "E", "3", "\n">>

\* 'G1 X5 Y5 F1500\n' (tagged, a travel move without an E token)
LineNoE ==
    <<"G", "1", " ", "X", "5", " ", "Y", "5", " ", "F", "1", "5", "0", "0", "\n">>

\* 'G1 X Y1 E1\n' (tagged, with an X token float() rejects)
LineBad ==
    <<"G", "1", " ", "X", " ", "Y", "1", " ", "E", "1", "\n">>

\* ' G1\tX2  Y6 E0.5' (irregular whitespace and no final newline: only as a last line)
LineLast ==
    <<" ", "G", "1", "\t", "X", "2", " ", " ", "Y", "6", " ", "E", "0", ".", "5">>

\* 'G1 X3 Y3 E4 E8\n' (tagged, with X, Y and two parts that start with E)
LineTwoE ==
    <<"G", "1", " ", "X", "3", " ", "Y", "3", " ", "E", "4", " ", "E", "8", "\n">>

\* 'G1 X5 Y0 E1.5\n'
LineC ==
    <<"G", "1", " ", "X", "5", " ", "Y", "0", " ", "E", "1", ".", "5", "\n">>

\* 'G1 X2 Y6 E3\n'
LineD ==
    <<"G", "1", " ", "X", "2", " ", "Y", "6", " ", "E", "3", "\n">>

\* 'G1 X0 Y5 E-0.5\n'
LineE ==
    <<"G", "1", " ", "X", "0", " ", "Y", "5", " ", "E", "-", "0", ".", "5", "\n">>

\* 'G1 X2 Y3 E0\n'
LineF ==
    <<"G", "1", " ", "X", "2", " ", "Y", "3", " ", "E", "0", "\n">>

\* 'M104 S200\n'
LineM ==
    <<"M", "1", "0", "4", " ", "S", "2", "0", "0", "\n">>

TextTwo == <<"2">>

TextMinusHalf == <<"-", "0", ".", "5">>

TextOne == <<"1">>

TextInf == <<"i", "n", "f">>

TextNan == <<"n", "a", "n">>

TextAbc == <<"a", "b", "c">>

\* The most lines of a file in the file-oriented specification, and the
\* most confirmed operations of a session.
MaxLines == 3

MaxOps == 2

EndsWithNewline(line) == line # <<>> /\ line[Len(line)] = "\n"

IOLines ==
    {LineA, LineB, LineNoTag, LineNoY, LineNoE, LineBad, LineLast, LineTwoE}

\* The files of at most MaxLines lines; only a last line can lack its
\* newline.
IOFiles ==
    {f \in UNION {[1..n -> IOLines] : n \in 0..MaxLines} :
        \A i \in 1..(Len(f) - 1) : EndsWithNewline(f[i])}

\* The files of the session-oriented specification: a file whose moves lie
\* on, inside and outside the regions that can be dragged, a file without
\* any record and a malformed file.
SessionFiles ==
    { <<LineC, LineM, LineD, LineE, LineF, LineA, LineB>>,
      <<LineM, LineNoE>>,
      <<LineA, LineBad>> }

Num(n) == Fin(FALSE, n, 0)

\* The (xdata, ydata) of the press and release events of a drag.
ClickPoints == {<<Num(0), Num(5)>>, <<Num(5), Num(0)>>}

\* The one drag of the file-oriented specification, from press to release.
IOPress == <<Num(5), Num(0)>>

IORelease == <<Num(0), Num(5)>>

\* What the operator types at the prompt.
RatioTexts ==
    {TextTwo, TextMinusHalf, TextOne, TextInf, TextNan, TextAbc}

IORatioTexts == {TextTwo, TextAbc}

(***************************************************************************)
(* The program                                                             *)
(***************************************************************************)

VARIABLES
    pc,                     \* where the main script is
    input_file,             \* the lines of input.gcode
    gcode_data,             \* the global array of [x, y, e] rows
    selected_areas,         \* the global list of confirmed (x_range, y_range)
    extrusion_multipliers,  \* the global list of confirmed ratios
    x_range,                \* the global x_range, <<>> while it is unbound
    y_range,                \* the global y_range, <<>> while it is unbound
    confirm_active,         \* confirm_button's active flag
    output_file,            \* the lines of output.gcode
    last_event,             \* history: the event handled last and its outcome
    accepted                \* history: the confirms whose ratio was applied

vars ==
    <<pc, input_file, gcode_data, selected_areas, extrusion_multipliers,
      x_range, y_range, confirm_active, output_file, last_event, accepted>>

\* last_event: ev is the kind of event, text what was typed at the prompt,
\* res the outcome of a confirm, drag the press and release points of the
\* latest drag, earlier those of the drag before it when no confirm came
\* between the two (<<>> otherwise).
NoEvent == [ev |-> "none", text |-> <<>>, res |-> "", drag |-> <<>>, earlier |-> <<>>]

Selected(eclick, erelease) ==
    [ev |-> "select", text |-> <<>>, res |-> "", drag |-> <<eclick, erelease>>,
     earlier |-> IF last_event.ev = "select" THEN last_event.drag ELSE <<>>]

Confirmed(text, res) ==
    [ev |-> "confirm", text |-> text, res |-> res, drag |-> last_event.drag,
     earlier |-> IF last_event.ev = "select" THEN last_event.earlier ELSE <<>>]

\* The state before the main script has parsed anything.
Start(files) ==
    /\ pc = "start"
    /\ input_file \in files
    /\ gcode_data = <<>>
    /\ selected_areas = <<>>
    /\ extrusion_multipliers = <<>>
    /\ x_range = <<>>
    /\ y_range = <<>>
    /\ confirm_active = FALSE
    /\ output_file = <<>>
    /\ last_event = NoEvent
    /\ accepted = 0

\* Lines 160-185: parse input.gcode and set the figure up.  A ValueError of
\* parse_gcode ends the script; an input without any record gives a 1-D
\* empty array, and the scatter plot's downsampled_data[:, 0] ends the
\* script with an IndexError.  Otherwise the event loop starts with the
\* confirm button disabled.
main_setup ==
    /\ pc = "start"
    /\ LET r == parse_gcode(input_file)
       IN  /\ gcode_data' = r.data
           /\ pc' = IF r.raised THEN "ValueError"
                    ELSE IF r.data = <<>> THEN "IndexError"
                    ELSE "session"
    /\ confirm_active' = FALSE
    /\ UNCHANGED <<input_file, selected_areas, extrusion_multipliers, x_range,
                   y_range, output_file, last_event, accepted>>

\* A variant that keeps the region already pending instead of replacing it.
on_select_keep_pending(eclick, erelease) ==
    /\ pc = "session"
    /\ IF confirm_active
       THEN UNCHANGED <<x_range, y_range>>
       ELSE /\ x_range' = <<FMin(eclick[1], erelease[1]), FMax(eclick[1], erelease[1])>>
            /\ y_range' = <<FMin(eclick[2], erelease[2]), FMax(eclick[2], erelease[2])>>
    /\ confirm_active' = TRUE
    /\ last_event' = Selected(eclick, erelease)
    /\ UNCHANGED <<pc, input_file, gcode_data, selected_areas,
                   extrusion_multipliers, output_file, accepted>>

\* A variant that keeps the ends of the drag as they came (no min/max).
on_select_as_dragged(eclick, erelease) ==
    /\ pc = "session"
    /\ x_range' = <<eclick[1], erelease[1]>>
    /\ y_range' = <<eclick[2], erelease[2]>>
    /\ confirm_active' = TRUE
    /\ last_event' = Selected(eclick, erelease)
    /\ UNCHANGED <<pc, input_file, gcode_data, selected_areas,
                   extrusion_multipliers, output_file, accepted>>

\* on_select(eclick, erelease), called by the RectangleSelector.
on_select(eclick, erelease) ==
    /\ pc = "session"
    /\ x_range' = <<FMin(eclick[1], erelease[1]), FMax(eclick[1], erelease[1])>>
    /\ y_range' = <<FMin(eclick[2], erelease[2]), FMax(eclick[2], erelease[2])>>
    /\ confirm_active' = TRUE
    /\ last_event' = Selected(eclick, erelease)
    /\ UNCHANGED <<pc, input_file, gcode_data, selected_areas,
                   extrusion_multipliers, output_file, accepted>>

\* A variant that logs the area before it converts the text (line 131 moved
\* above line 127).
confirm_selection_log_first(text) ==
    LET target_ratio == PyFloat(text)
    IN  /\ confirm_active' = FALSE
        /\ selected_areas' = Append(selected_areas, <<x_range, y_range>>)
        /\ IF target_ratio = ValueError
           THEN /\ last_event' = Confirmed(text, "ValueError")
                /\ UNCHANGED <<gcode_data, extrusion_multipliers, accepted>>
           ELSE /\ extrusion_multipliers' = Append(extrusion_multipliers, target_ratio)
                /\ gcode_data' = adjust_extrusion(gcode_data, x_range, y_range, target_ratio)
                /\ last_event' = Confirmed(text, "applied")
                /\ accepted' = accepted + 1
        /\ UNCHANGED <<pc, input_file, x_range, y_range, output_file>>

\* A variant that logs an area only the first time it is confirmed.
confirm_selection_log_once(text) ==
    LET target_ratio == PyFloat(text)
        known == \E i \in 1..Len(selected_areas) : selected_areas[i] = <<x_range, y_range>>
    IN  /\ confirm_active' = FALSE
        /\ IF target_ratio = ValueError
           THEN /\ last_event' = Confirmed(text, "ValueError")
                /\ UNCHANGED <<gcode_data, selected_areas, extrusion_multipliers, accepted>>
           ELSE /\ selected_areas' =
                       IF known THEN selected_areas
                       ELSE Append(selected_areas, <<x_range, y_range>>)
                /\ extrusion_multipliers' =
                       IF known THEN extrusion_multipliers
                       ELSE Append(extrusion_multipliers, target_ratio)
                /\ gcode_data' = adjust_extrusion(gcode_data, x_range, y_range, target_ratio)
                /\ last_event' = Confirmed(text, "applied")
                /\ accepted' = accepted + 1
        /\ UNCHANGED <<pc, input_file, x_range, y_range, output_file>>

\* confirm_selection(event), the operator typing `text` at the prompt.
\* float(text) raising ValueError, and the NameError of an unbound x_range,
\* are caught by the handler after the button has been disabled.
confirm_selection(text) ==
    LET target_ratio == PyFloat(text)
    IN  /\ confirm_active' = FALSE
        /\ IF target_ratio = ValueError
           THEN /\ last_event' = Confirmed(text, "ValueError")
                /\ UNCHANGED <<gcode_data, selected_areas, extrusion_multipliers, accepted>>
           ELSE IF x_range = <<>> \/ y_range = <<>>
           THEN /\ last_event' = Confirmed(text, "NameError")
                /\ UNCHANGED <<gcode_data, selected_areas, extrusion_multipliers, accepted>>
           ELSE /\ selected_areas' = Append(selected_areas, <<x_range, y_range>>)
                /\ extrusion_multipliers' = Append(extrusion_multipliers, target_ratio)
                /\ gcode_data' = adjust_extrusion(gcode_data, x_range, y_range, target_ratio)
                /\ last_event' = Confirmed(text, "applied")
                /\ accepted' = accepted + 1
        /\ UNCHANGED <<pc, input_file, x_range, y_range, output_file>>

\* A variant without the initial and the per-confirm set_active(False).
ButtonResponds_always == TRUE

\* Whether the button passes a click on to its callback: a widget that is
\* not active ignores its events.
ButtonResponds == confirm_active

\* A click on the confirm button (lines 183-185 connect confirm_selection).
confirm_clicked(text) ==
    /\ pc = "session"
    /\ Len(selected_areas) < MaxOps
    /\ IF ButtonResponds
       THEN confirm_selection(text)
       ELSE /\ last_event' = Confirmed(<<>>, "ignored")
            /\ UNCHANGED <<pc, input_file, gcode_data, selected_areas,
                           extrusion_multipliers, x_range, y_range,
                           confirm_active, output_file, accepted>>

\* A variant that writes output.gcode while the window stays open.
main_save_keep_open ==
    /\ pc = "session"
    /\ output_file' = write_gcode(gcode_data, input_file).out
    /\ output_file' # output_file
    /\ UNCHANGED <<pc, input_file, gcode_data, selected_areas, extrusion_multipliers,
                   x_range, y_range, confirm_active, last_event, accepted>>

\* Lines 187-192: plt.show() returns when the window is closed, and the
\* script writes output.gcode.
main_save ==
    /\ pc = "session"
    /\ output_file' = write_gcode(gcode_data, input_file).out
    /\ pc' = "done"
    /\ UNCHANGED <<input_file, gcode_data, selected_areas, extrusion_multipliers,
                   x_range, y_range, confirm_active, last_event, accepted>>

Init == Start(SessionFiles)

Next ==
    \/ main_setup
    \/ \E eclick \in ClickPoints, erelease \in ClickPoints : on_select(eclick, erelease)
    \/ \E text \in RatioTexts : confirm_clicked(text)
    \/ main_save

Spec == Init /\ [][Next]_vars

\* The same program over every small file, with one drag and two ratio
\* texts: the specification of the claims about parse_gcode and write_gcode.
InitIO == Start(IOFiles)

NextIO ==
    \/ main_setup
    \/ on_select(IOPress, IORelease)
    \/ \E text \in IORatioTexts : confirm_clicked(text)
    \/ main_save

SpecIO == InitIO /\ [][NextIO]_vars

(***************************************************************************)
(* Properties                                                              *)
(***************************************************************************)

\* What parse_gcode returns for each file of the two specifications, as a
\* table (@@ makes an explicit function of it, computed once).
Parsed == [f \in SessionFiles \cup IOFiles |-> parse_gcode(f).data] @@ <<>>

\* What extraction produced for the file of this run.
Extracted == Parsed[input_file]

\* The closed rectangle `area` = <<x_range, y_range>> contains the point
\* (x, y) of `row`.
Contains(area, row) ==
    /\ FLe(area[1][1], row.x) /\ FLe(row.x, area[1][2])
    /\ FLe(area[2][1], row.y) /\ FLe(row.y, area[2][2])

\* The product of the ratios of the first n Operation-log entries whose
\* region contains `row`.
RECURSIVE RatioProduct(_, _)
RatioProduct(row, n) ==
    IF n = 0 THEN Num(1)
    ELSE IF Contains(selected_areas[n], row)
         THEN FMul(RatioProduct(row, n - 1), extrusion_multipliers[n])
         ELSE RatioProduct(row, n - 1)

\* C1: during and after the session, the deposition of every record is its
\* extracted deposition times the product of the ratios of exactly the
\* logged operations whose region contains the record's (x, y).
C1_Compounding ==
    pc \in {"session", "done"} =>
        LET orig == Extracted
        IN  /\ Len(gcode_data) = Len(orig)
            /\ \A k \in 1..Len(gcode_data) :
                   gcode_data[k].e =
                       FMul(orig[k].e, RatioProduct(orig[k], Len(selected_areas)))

\* C1 witness: two operations on different, overlapping regions with ratios
\* r1 and r2 other than 1 have been confirmed, and a record inside both
\* carries its extracted deposition times r1 * r2, which is neither.
C1_Witness ==
    /\ pc = "session"
    /\ Len(selected_areas) = 2
    /\ selected_areas[1] # selected_areas[2]
    /\ \E k \in 1..Len(gcode_data) :
           /\ Contains(selected_areas[1], gcode_data[k])
           /\ Contains(selected_areas[2], gcode_data[k])
           /\ IsFinite(gcode_data[k].e) /\ ~IsZero(gcode_data[k].e)
           /\ gcode_data[k].e =
                  FMul(Extracted[k].e,
                       FMul(extrusion_multipliers[1], extrusion_multipliers[2]))
           /\ gcode_data[k].e # FMul(Extracted[k].e, extrusion_multipliers[1])
           /\ gcode_data[k].e # FMul(Extracted[k].e, extrusion_multipliers[2])

\* Kinds of steps of the session, told apart by the event they record.
InSession == pc = "session" /\ pc' = "session"

\* on_select has run.
Selects == InSession /\ last_event'.ev = "select"

\* confirm_selection has run (the button was active).
HandlesConfirm ==
    InSession /\ last_event'.ev = "confirm" /\ last_event'.res # "ignored"

\* confirm_selection has run and float() raised ValueError on the text.
Rejects == HandlesConfirm /\ PyFloat(last_event'.text) = ValueError

\* confirm_selection has run on a text that float() converts.
Accepts == HandlesConfirm /\ PyFloat(last_event'.text) # ValueError

\* The step applies a confirmed operation (adjust_extrusion has run).
Applies == accepted' = accepted + 1

\* C2: the transform multiplies the deposition by the ratio for exactly the
\* records with x_min <= x <= x_max and y_min <= y <= y_max, bounds
\* included, and leaves every other deposition as it was.
C2_RegionTransform ==
    [][Applies =>
         /\ Len(gcode_data') = Len(gcode_data)
         /\ \A k \in 1..Len(gcode_data) :
                gcode_data'[k].e =
                    IF /\ FLe(x_range[1], gcode_data[k].x)
                       /\ FLe(gcode_data[k].x, x_range[2])
                       /\ FLe(y_range[1], gcode_data[k].y)
                       /\ FLe(gcode_data[k].y, y_range[2])
                    THEN FMul(gcode_data[k].e, PyFloat(last_event'.text))
                    ELSE gcode_data[k].e]_vars

\* C2 witness: an operation over a proper rectangle has just been applied
\* with a ratio that changes values; one record lies on the rectangle's
\* x_max and y_min, one on its x_min and y_max, one strictly inside, and
\* one outside by its y alone.
C2_Witness ==
    /\ pc = "session"
    /\ last_event.res = "applied"
    /\ PyFloat(last_event.text) = Num(2)
    /\ LET area == selected_areas[Len(selected_areas)]
           xr   == area[1]
           yr   == area[2]
       IN  /\ FLt(xr[1], xr[2]) /\ FLt(yr[1], yr[2])
           /\ \E k \in 1..Len(gcode_data) :
                  gcode_data[k].x = xr[2] /\ gcode_data[k].y = yr[1]
           /\ \E k \in 1..Len(gcode_data) :
                  gcode_data[k].x = xr[1] /\ gcode_data[k].y = yr[2]
           /\ \E k \in 1..Len(gcode_data) :
                  /\ FLt(xr[1], gcode_data[k].x) /\ FLt(gcode_data[k].x, xr[2])
                  /\ FLt(yr[1], gcode_data[k].y) /\ FLt(gcode_data[k].y, yr[2])
           /\ \E k \in 1..Len(gcode_data) :
                  /\ FLt(xr[1], gcode_data[k].x) /\ FLt(gcode_data[k].x, xr[2])
                  /\ FLt(yr[2], gcode_data[k].y)
                  /\ gcode_data[k].e = Extracted[k].e

\* The session's durable state: the records and the Operation log.
durable == <<gcode_data, selected_areas, extrusion_multipliers>>

\* C3: after a confirm whose ratio text is rejected, the session is still
\* RegionPending (the confirm button is enabled) with the same pending
\* region, so that a confirm can follow without a new select.
C3_RetryAfterInvalid ==
    [][Rejects =>
         /\ confirm_active'
         /\ x_range' = x_range /\ y_range' = y_range]_vars

\* C4: a confirm whose ratio text does not parse as a number leaves the
\* records and the Operation log as they were.
C4_InvalidRatioNoEffect ==
    [][Rejects => UNCHANGED durable]_vars

\* C4 witness: a confirm has just been rejected in a session that already
\* had a logged operation and a changed record to preserve.
C4_Witness ==
    /\ pc = "session"
    /\ last_event.ev = "confirm" /\ last_event.res = "ValueError"
    /\ PyFloat(last_event.text) = ValueError
    /\ selected_areas # <<>>
    /\ \E k \in 1..Len(gcode_data) : gcode_data[k].e # Extracted[k].e

\* C5: a confirm whose text parses to infinity or NaN is rejected (records
\* and log unchanged), and every logged ratio is finite.
C5_NonFiniteRejected ==
    [][/\ (HandlesConfirm /\ PyFloat(last_event'.text).k \in {"inf", "nan"})
            => UNCHANGED durable
       /\ \A i \in 1..Len(extrusion_multipliers') :
              IsFinite(extrusion_multipliers'[i])]_vars

\* C6: every accepted confirm appends exactly the pending region and the
\* ratio to the log and disables the button (Idle); no other step changes
\* the log; the two lists have one length, the number of accepted confirms.
C6_AppendOnlyLog ==
    [][/\ Accepts =>
            /\ selected_areas' = Append(selected_areas, <<x_range, y_range>>)
            /\ extrusion_multipliers' =
                   Append(extrusion_multipliers, PyFloat(last_event'.text))
            /\ ~confirm_active'
            /\ accepted' = accepted + 1
       /\ ~Accepts => UNCHANGED <<selected_areas, extrusion_multipliers, accepted>>
       /\ Len(selected_areas) = accepted /\ Len(extrusion_multipliers) = accepted
       /\ Len(selected_areas') = accepted' /\ Len(extrusion_multipliers') = accepted']_vars

\* C6 witness: two confirms have been accepted, the second for the region
\* already logged by the first, and the log holds both entries.
C6_Witness ==
    /\ pc = "session"
    /\ accepted = 2
    /\ last_event.res = "applied"
    /\ ~confirm_active
    /\ Len(selected_areas) = 2 /\ Len(extrusion_multipliers) = 2
    /\ selected_areas[1] = selected_areas[2]
    /\ extrusion_multipliers[1] # extrusion_multipliers[2]

\* C7: the session starts Idle (button disabled), and a confirm click that
\* arrives while it is Idle changes neither the records nor the log.
C7_IdleConfirmNoOp ==
    [][/\ (pc = "start" /\ pc' = "session") => ~confirm_active'
       /\ (InSession /\ last_event'.ev = "confirm" /\ ~confirm_active)
            => UNCHANGED durable]_vars

\* C7 witness: a confirm click has just been ignored in a session that is
\* Idle after an accepted confirm, with no new select since.
C7_Witness ==
    /\ pc = "session"
    /\ last_event.ev = "confirm" /\ last_event.res = "ignored"
    /\ ~confirm_active
    /\ x_range # <<>>
    /\ accepted = 1 /\ Len(selected_areas) = 1

\* The region of a drag <<press, release>>: the lesser and the greater
\* coordinate on each axis.
Lesser(a, b) == IF FLe(a, b) THEN a ELSE b

Greater(a, b) == IF FLe(a, b) THEN b ELSE a

DragRegion(d) ==
    << <<Lesser(d[1][1], d[2][1]), Greater(d[1][1], d[2][1])>>,
       <<Lesser(d[1][2], d[2][2]), Greater(d[1][2], d[2][2])>> >>

\* C8: a select leads to RegionPending with the dragged region pending,
\* whatever was pending before, and touches neither records nor log; an
\* accepted confirm logs the region of the latest drag and transforms the
\* records by that region alone.
C8_LatestSelectWins ==
    [][/\ Selects =>
            /\ confirm_active'
            /\ <<x_range', y_range'>> = DragRegion(last_event'.drag)
            /\ UNCHANGED durable
       /\ Accepts =>
            /\ Len(selected_areas') = Len(selected_areas) + 1
            /\ selected_areas'[Len(selected_areas')] = DragRegion(last_event'.drag)
            /\ \A k \in 1..Len(gcode_data) :
                   gcode_data'[k].e =
                       IF Contains(DragRegion(last_event'.drag), gcode_data[k])
                       THEN FMul(gcode_data[k].e, PyFloat(last_event'.text))
                       ELSE gcode_data[k].e]_vars

\* C8 witness: two different regions were selected one after the other, the
\* confirm that followed logged the later one only, and a record that lies
\* in the earlier region but not in the later one still has its extracted
\* deposition.
C8_Witness ==
    /\ pc = "session"
    /\ last_event.res = "applied"
    /\ last_event.earlier # <<>>
    /\ DragRegion(last_event.earlier) # DragRegion(last_event.drag)
    /\ selected_areas = <<DragRegion(last_event.drag)>>
    /\ PyFloat(last_event.text) = Num(2)
    /\ \E k \in 1..Len(gcode_data) :
           /\ Contains(DragRegion(last_event.earlier), gcode_data[k])
           /\ ~Contains(DragRegion(last_event.drag), gcode_data[k])
           /\ gcode_data[k].e = Extracted[k].e
    /\ \E k \in 1..Len(gcode_data) :
           /\ Contains(DragRegion(last_event.drag), gcode_data[k])
           /\ gcode_data[k].e # Extracted[k].e

\* The parts of `line` that start with the marker c, and the values float()
\* gives their remainders.
Marked(line, c) ==
    LET parts == Split(line)
    IN  {parts[j] : j \in {j \in 1..Len(parts) : StartsWith(parts[j], c)}}

MarkedValues(line, c) == {PyFloat(Suffix(part, 2)) : part \in Marked(line, c)}

\* A line that contains the command tag and has X, Y and deposition tokens.
Qualifies(line) ==
    /\ HasTag(line)
    /\ LET parts == Split(line)
           has(c) == \E j \in 1..Len(parts) : StartsWith(parts[j], c)
       IN  has("X") /\ has("Y") /\ has("E")

QualifyingLines == {i \in 1..Len(input_file) : Qualifies(input_file[i])}

\* The position in the file of the k-th qualifying line.
SourceLine(k) ==
    LET q == QualifyingLines
    IN  CHOOSE i \in q : Cardinality({j \in q : j <= i}) = k

\* C9: when parse_gcode returns, there are as many records as qualifying
\* lines, and record k carries the X, Y and deposition values of the k-th
\* qualifying line (the deposition as extracted, before any operation).
C9_ExtractionSelective ==
    pc \in {"session", "done", "IndexError"} =>
        /\ Len(gcode_data) = Cardinality(QualifyingLines)
        /\ \A k \in 1..Len(gcode_data) :
               LET line == input_file[SourceLine(k)]
               IN  /\ gcode_data[k].x \in MarkedValues(line, "X")
                   /\ gcode_data[k].y \in MarkedValues(line, "Y")
                   /\ selected_areas = <<>> =>
                          gcode_data[k].e \in MarkedValues(line, "E")

\* C9 witness: a file of three lines whose second line is tagged but lacks
\* one of the three tokens has been parsed into two different records, the
\* second one from the third line.
C9_Witness ==
    /\ pc = "session"
    /\ selected_areas = <<>>
    /\ Len(input_file) = 3
    /\ Qualifies(input_file[1]) /\ Qualifies(input_file[3])
    /\ HasTag(input_file[2]) /\ ~Qualifies(input_file[2])
    /\ Len(gcode_data) = 2
    /\ gcode_data[1] # gcode_data[2]
    /\ gcode_data[1].e \in MarkedValues(input_file[1], "E")
    /\ gcode_data[2].e \in MarkedValues(input_file[3], "E")

\* C10: the output has one line per input line, in order; a line without
\* the tag is copied as it is; on a tagged line every part that does not
\* start with the deposition marker is emitted unchanged at its position
\* among the parts of the line.
C10_RewriteFidelity ==
    pc = "done" =>
        /\ Len(output_file) = Len(input_file)
        /\ \A i \in 1..Len(input_file) :
               IF ~HasTag(input_file[i])
               THEN output_file[i] = input_file[i]
               ELSE LET old == Split(input_file[i])
                        new == Split(output_file[i])
                    IN  /\ Len(new) = Len(old)
                        /\ \A j \in 1..Len(old) :
                               ~StartsWith(old[j], "E") => new[j] = old[j]
                        /\ \A p \in 1..(Len(output_file[i]) - 1) :
                               output_file[i][p] # "\n"

\* C10 witness: output.gcode has been written for a file with a line
\* without the tag that holds an E part and runs of blanks, a tagged line
\* whose deposition was replaced, and a tagged line whose deposition was
\* kept because the records had run out.
C10_Witness ==
    /\ pc = "done"
    /\ \E i, j, l \in 1..Len(input_file) :
           /\ ~HasTag(input_file[i])
           /\ Marked(input_file[i], "E") # {}
           /\ Join(Split(input_file[i])) \o <<"\n">> # input_file[i]
           /\ output_file[i] = input_file[i]
           /\ HasTag(input_file[j])
           /\ Split(output_file[j]) # Split(input_file[j])
           /\ HasTag(input_file[l])
           /\ Marked(input_file[l], "E") # {}
           /\ Split(output_file[l]) = Split(input_file[l])

\* The run of write_gcode over the records as they are now: what main_save
\* writes, with the history of the record cursor.
Rewrite == write_gcode(gcode_data, input_file)

\* The floats of the E parts of output line i.
WrittenValue(i, j) == PyFloat(Suffix(Split(output_file[i])[j], 2))

\* Every logged operation has ratio 1 and a region that covers every record
\* (an empty log is a session without any transform).
IdentityOnly ==
    \A n \in 1..Len(selected_areas) :
        /\ extrusion_multipliers[n] = Num(1)
        /\ \A k \in 1..Len(gcode_data) : Contains(selected_areas[n], gcode_data[k])

\* C11: after extraction, no transform or only transforms of ratio 1 over
\* regions that cover every record, and the rewrite, every deposition part
\* that was replaced on a tagged line carries a deposition value that line
\* had in the source.
C11_RoundTrip ==
    (pc = "done" /\ IdentityOnly) =>
        LET w == Rewrite
        IN  \A i \in 1..Len(input_file) :
                \A n \in 1..Len(w.read[i]) :
                    WrittenValue(i, w.read[i][n].part)
                        \in MarkedValues(input_file[i], "E")

\* A tagged line with a deposition part that lacks an X or a Y part.
Unpositioned(line) ==
    /\ HasTag(line)
    /\ LET parts == Split(line)
           has(c) == \E j \in 1..Len(parts) : StartsWith(parts[j], c)
       IN  has("E") /\ ~(has("X") /\ has("Y"))

\* gcode_index when the run w of the rewrite reaches line i.
CursorBefore(w, i) == IF i = 1 THEN 0 ELSE w.index[i - 1]

\* Every read of a record the run w makes on the lines from i onward takes
\* a record that parse_gcode extracted from a later line than the one being
\* written.
ShiftedFrom(w, i) ==
    \A l \in i..Len(input_file) :
        \A n \in 1..Len(w.read[l]) : SourceLine(w.read[l][n].index + 1) > l

\* C12 as stated: in the rewrite, every tagged line with a deposition part
\* but without an X or a Y part consumes a record, and from that line onward
\* every replaced deposition part receives the deposition of a record
\* extracted from a later source line.
C12_UnpositionedConsumes ==
    pc = "done" =>
        LET w == Rewrite
        IN  \A i \in 1..Len(input_file) :
                Unpositioned(input_file[i]) =>
                    /\ w.read[i] # <<>>
                    /\ ShiftedFrom(w, i)

\* C12 amended: such a line consumes a record whenever one remains when the
\* rewrite reaches it (none of its deposition parts is replaced otherwise),
\* and from that line onward every replaced deposition part receives the
\* deposition of a record extracted from a later source line.
C12_UnpositionedConsumesWhileRecordsRemain ==
    pc = "done" =>
        LET w == Rewrite
        IN  \A i \in 1..Len(input_file) :
                Unpositioned(input_file[i]) =>
                    /\ w.read[i] # <<>> <=> CursorBefore(w, i) < Len(gcode_data)
                    /\ ShiftedFrom(w, i)

\* C12 witness: output.gcode has been written for a file where a tagged line
\* without a Y part took the deposition of the record of a later line, and a
\* later line of the file took the record of a line after itself.
C12_Witness ==
    /\ pc = "done"
    /\ \E i, l \in 1..Len(input_file) :
           /\ i < l
           /\ Unpositioned(input_file[i])
           /\ Rewrite.read[i] # <<>>
           /\ Rewrite.read[l] # <<>>
           /\ Split(output_file[i]) # Split(input_file[i])
           /\ Split(output_file[l]) # Split(input_file[l])

\* The positions of the parts of line i that the run w of the rewrite
\* replaced.
ReplacedParts(w, i) == {w.read[i][n].part : n \in 1..Len(w.read[i])}

\* C13: in the rewrite the cursor stays within 0..N, N the number of
\* records; it advances by one exactly when a record is read and a record
\* is read only at an index below N; once the cursor is N every further
\* deposition part of a tagged line is written as it was and the cursor
\* stays at N; and every line of the file is written.
C13_CursorBounded ==
    pc = "done" =>
        LET N == Len(gcode_data)
            w == Rewrite
        IN  /\ output_file = w.out
            /\ Len(output_file) = Len(input_file)
            /\ \A i \in 1..Len(input_file) :
                   /\ 0 <= CursorBefore(w, i) /\ w.index[i] <= N
                   /\ w.index[i] = CursorBefore(w, i) + Len(w.read[i])
                   /\ \A n \in 1..Len(w.read[i]) :
                          /\ w.read[i][n].index = CursorBefore(w, i) + n - 1
                          /\ w.read[i][n].index < N
                   /\ HasTag(input_file[i]) =>
                          LET old == Split(input_file[i])
                              new == Split(output_file[i])
                          IN  \A j \in 1..Len(old) :
                                  (StartsWith(old[j], "E") /\ j \notin ReplacedParts(w, i))
                                      => (new[j] = old[j] /\ w.index[i] = N)
                   /\ CursorBefore(w, i) = N => (w.read[i] = <<>> /\ w.index[i] = N)

\* C13 witness: output.gcode has been written in full for a file where the
\* cursor reached the number of records on one line and a later tagged line
\* kept its deposition part.
C13_Witness ==
    /\ pc = "done"
    /\ Len(output_file) = Len(input_file)
    /\ \E i, l \in 1..Len(input_file) :
           /\ i < l
           /\ Rewrite.read[i] # <<>>
           /\ Rewrite.index[i] = Len(gcode_data)
           /\ HasTag(input_file[l])
           /\ Marked(input_file[l], "E") # {}
           /\ Rewrite.read[l] = <<>>
           /\ Marked(output_file[l], "E") = Marked(input_file[l], "E")

\* A tagged line with an X, Y or E part whose remainder float() rejects.
Malformed(line) ==
    /\ HasTag(line)
    /\ LET parts == Split(line)
       IN  \E j \in 1..Len(parts) :
               /\ StartsWith(parts[j], "X") \/ StartsWith(parts[j], "Y")
                      \/ StartsWith(parts[j], "E")
               /\ PyFloat(Suffix(parts[j], 2)) = ValueError

\* C14: when a tagged line of the file holds an X, Y or deposition part
\* that does not parse as a number, the program goes from its start to the
\* ValueError of parse_gcode and nowhere else: no record is held, the
\* session never starts (no select or confirm is handled, nothing is
\* logged) and output.gcode is not written.
C14_MalformedAborts ==
    (\E i \in 1..Len(input_file) : Malformed(input_file[i])) =>
        /\ pc \in {"start", "ValueError"}
        /\ gcode_data = <<>>
        /\ last_event = NoEvent
        /\ selected_areas = <<>> /\ extrusion_multipliers = <<>>
        /\ output_file = <<>>

\* C14 witness: parse_gcode has raised on a file whose malformed line comes
\* after a line that had already given a record.
C14_Witness ==
    /\ pc = "ValueError"
    /\ \E i, l \in 1..Len(input_file) :
           /\ i < l
           /\ Qualifies(input_file[i]) /\ ~Malformed(input_file[i])
           /\ Malformed(input_file[l])

\* C15: whatever select and confirm events the session has handled, there
\* are as many records as parse_gcode returned, in the same order, each with
\* the x and y it was extracted with; only depositions differ.
C15_PositionsFrozen ==
    pc # "start" =>
        LET orig == Extracted
        IN  /\ Len(gcode_data) = Len(orig)
            /\ \A k \in 1..Len(orig) :
                   gcode_data[k].x = orig[k].x /\ gcode_data[k].y = orig[k].y

\* C15 witness: after an accepted confirm, a later select and a rejected
\* confirm, a record's deposition differs from the extracted one while a
\* record outside the region still has its own.
C15_Witness ==
    /\ pc = "session"
    /\ accepted = 1
    /\ last_event.ev = "confirm" /\ last_event.res = "ValueError"
    /\ \E k, l \in 1..Len(gcode_data) :
           /\ gcode_data[k].e # Extracted[k].e
           /\ gcode_data[l].e = Extracted[l].e
           /\ gcode_data[k].x = Extracted[k].x /\ gcode_data[k].y = Extracted[k].y

\* The positions of the parts of `line` that start with the deposition marker.
EParts(line) ==
    LET parts == Split(line)
    IN  {j \in 1..Len(parts) : StartsWith(parts[j], "E")}

\* Every tagged line with a deposition part has an X and a Y part too.
AllPositioned == \A i \in 1..Len(input_file) : ~Unpositioned(input_file[i])

\* No tagged line has two parts that start with the deposition marker.
SingleDeposition ==
    \A i \in 1..Len(input_file) :
        HasTag(input_file[i]) => Cardinality(EParts(input_file[i])) <= 1

Ordered(range) == FLe(range[1], range[2])

\* The pending region, once there is one, and every logged region have
\* x_min <= x_max and y_min <= y_max.
RegionsOrdered ==
    /\ x_range # <<>> => Ordered(x_range)
    /\ y_range # <<>> => Ordered(y_range)
    /\ \A n \in 1..Len(selected_areas) :
           Ordered(selected_areas[n][1]) /\ Ordered(selected_areas[n][2])

\* C17: before and after every step the pending region and every region of
\* the Operation log have x_min <= x_max and y_min <= y_max, whatever the
\* direction of the drag; a select leaves the log as it was, and no step
\* alters a region that is already logged.
C17_RegionsWellFormed ==
    [][/\ RegionsOrdered /\ RegionsOrdered'
       /\ Selects => selected_areas' = selected_areas
       /\ Len(selected_areas') >= Len(selected_areas)
       /\ \A n \in 1..Len(selected_areas) : selected_areas'[n] = selected_areas[n]]_vars

\* C17 witness: a drag pressed at the larger x and released at the smaller
\* one is pending, with its ends in order, after a different region was
\* logged.
C17_Witness ==
    /\ pc = "session"
    /\ last_event.ev = "select"
    /\ FLt(last_event.drag[2][1], last_event.drag[1][1])
    /\ x_range = <<last_event.drag[2][1], last_event.drag[1][1]>>
    /\ Len(selected_areas) = 1
    /\ selected_areas[1] # <<x_range, y_range>>

\* C18: output.gcode is written by one step only, the one that ends the
\* session; that step writes the rewrite of the records as they are then,
\* each deposition being the extracted one times the ratios of all the
\* logged operations whose region contains the record; after it no step is
\* taken at all (no select, no confirm, no second rewrite), and outside the
\* session no event is handled.
C18_RewriteOnceAfterSession ==
    [][/\ output_file' # output_file => (pc = "session" /\ pc' = "done")
       /\ pc' = "done" =>
              /\ pc = "session"
              /\ output_file' = write_gcode(gcode_data', input_file).out
              /\ gcode_data' = gcode_data
              /\ Len(selected_areas) = accepted
              /\ LET orig == Extracted
                 IN  \A k \in 1..Len(orig) :
                         gcode_data[k].e =
                             FMul(orig[k].e, RatioProduct(orig[k], Len(selected_areas)))
       /\ pc = "done" => FALSE
       /\ pc # "session" =>
              last_event' = last_event /\ accepted' = accepted]_vars

\* C18 witness: output.gcode has been written after two accepted confirms
\* and differs from what the rewrite of the extracted records would be.
C18_Witness ==
    /\ pc = "done"
    /\ accepted = 2
    /\ output_file = Rewrite.out
    /\ output_file # write_gcode(Extracted, input_file).out

\* The orders in which the n logged operations can be taken.
Orders(n) == {p \in [1..n -> 1..n] : \A a, b \in 1..n : p[a] = p[b] => a = b}

\* The records after the operations order[1], order[2], ... of the log
\* (areas, multipliers) have been applied to `gcode` one after the other.
RECURSIVE ApplyInOrder(_, _, _, _)
ApplyInOrder(gcode, areas, multipliers, order) ==
    IF order = <<>> THEN gcode
    ELSE ApplyInOrder(adjust_extrusion(gcode, areas[order[1]][1], areas[order[1]][2],
                                       multipliers[order[1]]),
                      areas, multipliers, Tail(order))

\* C19: whenever an operation is applied, the records it leaves are what
\* the logged operations, the new one included, give when applied to the
\* extracted records in any order whatever, the order they were confirmed in
\* being one of them.
C19_OrderIndependent ==
    [][Applies =>
           LET orig == Extracted
           IN  \A order \in Orders(Len(selected_areas')) :
                   ApplyInOrder(orig, selected_areas', extrusion_multipliers', order)
                       = gcode_data']_vars

\* C19 witness: two operations with different regions and different finite
\* ratios have been confirmed; a record lies in both regions, another in
\* one of them only, and the deposition of the first has changed.
C19_Witness ==
    /\ pc = "session"
    /\ Len(selected_areas) = 2
    /\ selected_areas[1] # selected_areas[2]
    /\ extrusion_multipliers[1] # extrusion_multipliers[2]
    /\ IsFinite(extrusion_multipliers[1]) /\ IsFinite(extrusion_multipliers[2])
    /\ \E k, l \in 1..Len(gcode_data) :
           /\ Contains(selected_areas[1], gcode_data[k])
           /\ Contains(selected_areas[2], gcode_data[k])
           /\ gcode_data[k].e # Extracted[k].e
           /\ Contains(selected_areas[1], gcode_data[l])
                  # Contains(selected_areas[2], gcode_data[l])
====
